---- MODULE Spec2Model ----
(***************************************************************************)
(* The market-data service of stonks-dashboard (dataService.js: rate       *)
(* limiter, retrying fetcher, cache, the two adapters, fetchAllAssets) and *)
(* the dashboard's fetch scheduling (index.js: fetchData, switchPeriod,    *)
(* startGameLoop).                                                         *)
(*                                                                         *)
(* Execution model: JavaScript runs a handler to completion between two    *)
(* awaits that really suspend (a timer, a network request).  Each action   *)
(* below is one such segment.  An await of an already settled promise only *)
(* yields to the microtask queue, where no timer, key or I/O event can     *)
(* interleave: the per-ticker steps of fetchAllAssets are pc = "dispatch"  *)
(* steps, and every event action is disabled while one is pending.         *)
(***************************************************************************)
EXTENDS Integers, Sequences, FiniteSets, TLC

VARIABLES
  clock,              \* Date.now()
  lastCoinGeckoCall,  \* module variable of dataService.js
  prevCoinGeckoCall,  \* observation: the value the last acquire overwrote
  acquires,           \* observation: number of completed waitForCoinGecko calls
  cache,              \* DataService.cache: key -> entry (a partial function)
  file,               \* cache.json
  tickers,            \* config.tickers
  started,            \* dashboard.start() has run
  currentPeriodIndex, \* StonksDashboard.currentPeriodIndex
  assetsData,         \* StonksDashboard.assetsData
  assetsDays,         \* observation: the lookback assetsData was fetched with
  connectionError,    \* StonksDashboard.connectionError
  intervalOn,         \* setInterval of startGameLoop is registered
  nextFire,           \* when its next callback is due
  procs,              \* the fetchData invocations (one slot per invocation)
  event,              \* observation: the response the last step consumed, and how
                      \* the axiosGetWithRetry call it belongs to went on
  probe               \* a function call on its own: its arguments and its result

vars == <<clock, lastCoinGeckoCall, prevCoinGeckoCall, acquires, cache, file,
          tickers, started, currentPeriodIndex, assetsData, assetsDays,
          connectionError, intervalOn, nextFire, procs, event, probe>>

-----------------------------------------------------------------------------
(* Program constants *)

COINGECKO_DELAY == 5000
CACHE_TTL == 60000
DETAIL_TTL == 1800000
Retries == 3
BaseDelay == 1000
JitterSpan == 300
DefaultPeriodIndex == 1

\* this.periods: index -> days
PeriodDays == [k \in 0..3 |-> CASE k = 0 -> 1 [] k = 1 -> 7 [] k = 2 -> 30 [] OTHER -> 90]

(* Bounds of the model *)

MaxCycles == 2        \* fetchData invocations in one behaviour
MaxTickers == 2       \* length of config.tickers, one cycle on its own
MaxDashTickers == 1   \* length of config.tickers, overlapping cycles
MaxTicks == 3         \* clock steps in one behaviour
Step == 5000          \* ms per clock step
T0 == 2000000         \* Date.now() at start-up
UpdateInterval == 5000 \* config.updateInterval

Procs == 1..MaxCycles
MaxClock == T0 + MaxTicks * Step

\* config.tickers and config.cryptoIds
Symbols == {"BTC", "AAPL"}
cryptoIds == [s \in {"BTC"} |-> "bitcoin"]
IsCrypto(ticker) == ticker \in DOMAIN cryptoIds

RECURSIVE SeqsOf(_, _)
SeqsOf(S, n) ==
  IF n = 0 THEN {<<>>}
  ELSE LET shorter == SeqsOf(S, n - 1)
       IN shorter \cup {Append(q, s) : q \in {r \in shorter : Len(r) = n - 1}, s \in S}
TickerLists == SeqsOf(Symbols, MaxTickers)
DashTickerLists == SeqsOf(Symbols, MaxDashTickers)

\* Math.floor(Math.random() * 300): the extremes of 0..299
Jitters == {0, JitterSpan - 1}

\* HTTP statuses a failed request can carry
Statuses == {404, 429, 500}

RECURSIVE Pow2(_)
Pow2(n) == IF n = 0 THEN 1 ELSE 2 * Pow2(n - 1)

-----------------------------------------------------------------------------
(* Cache keys.  `crypto-${symbol}-${days}`, `detail-${coinId}` and
   `stock-${symbol}-${days}`: the prefix separates the three families and,
   days being a non-negative number, the last "-" separates symbol from
   days, so the string is determined by and determines the triple.  The
   detail key has no lookback component (0 here). *)
ChartKey(symbol, days) == <<"crypto", symbol, days>>
DetailKey(coinId) == <<"detail", coinId, 0>>
StockKey(symbol, days) == <<"stock", symbol, days>>
KeyOf(ticker, days) ==
  IF IsCrypto(ticker) THEN ChartKey(ticker, days) ELSE StockKey(ticker, days)

\* `!cached.timestamp`: the field is absent, or present and falsy (0)
NoTimestamp(entry) == "timestamp" \notin DOMAIN entry \/ entry.timestamp = 0

isCacheValid_TimestampOnly(c, cacheKey, ttl, now) ==
  cacheKey \in DOMAIN c /\ ~NoTimestamp(c[cacheKey])

isCacheValid(c, cacheKey, ttl, now) ==
  IF cacheKey \notin DOMAIN c THEN FALSE
  ELSE IF NoTimestamp(c[cacheKey]) THEN FALSE
  ELSE now - c[cacheKey].timestamp < ttl

\* this.cache.set(key, value)
CacheSet(c, key, value) == (key :> value) @@ c

\* { ...entry, k: v, ... }
Spread(entry, overrides) == overrides @@ entry

-----------------------------------------------------------------------------
(* Records.  A JavaScript object is a record whose absent fields are not in
   its domain.  The price series is kept as the provider's series for the
   request, Series(symbol, days); the numeric fields that come from the
   secondary request (detail / quote) are kept as one flag. *)
Series(symbol, days) == <<symbol, days>>
ZeroSeries == <<"zero", 0>>

\* the `result` object of fetchCryptoData
NullDetail == [null |-> TRUE]
CryptoResult(symbol, days, detailData, now) ==
  [symbol |-> symbol, type |-> "crypto", history |-> Series(symbol, days),
   secondary |-> detailData # NullDetail, timestamp |-> now, error |-> FALSE]

\* the `data` object of fetchStockData, after the optional quote merge
StockResult(symbol, days, quoted, now) ==
  [symbol |-> symbol, type |-> "EQUITY", history |-> Series(symbol, days),
   secondary |-> quoted, timestamp |-> now, error |-> FALSE]

\* the `detailData` object stored under the detail key
DetailData(coinId, now) == [of |-> coinId, timestamp |-> now]

CryptoPlaceholder(symbol, coinId) ==
  [symbol |-> symbol, type |-> "crypto", history |-> ZeroSeries,
   secondary |-> FALSE, error |-> TRUE]

StockPlaceholder(symbol) ==
  [symbol |-> symbol, type |-> "stock", history |-> ZeroSeries,
   secondary |-> FALSE, error |-> TRUE]

\* What a request can come back with.  An error carries e.response.status
\* when a response was received and no status otherwise.
Errors == {[status |-> s] : s \in Statuses} \cup {[code |-> "ECONNRESET"]}
NoError == [none |-> TRUE]
TypeError == [name |-> "TypeError"]
Outcomes ==
  {[kind |-> k, err |-> NoError] : k \in {"ok", "malformed"}}
    \cup {[kind |-> "error", err |-> e] : e \in Errors}

\* status === 429 || (status >= 500) || !status
ShouldRetry_Only429(e) == "status" \in DOMAIN e /\ e.status = 429

ShouldRetry_All(e) == TRUE

ShouldRetry(e) ==
  IF "status" \notin DOMAIN e THEN TRUE
  ELSE e.status = 429 \/ e.status >= 500 \/ e.status = 0

\* attempt < retries
MoreAttempts_OffByOne(attempt) == attempt < Retries - 1

MoreAttempts(attempt) == attempt < Retries

\* baseDelay * Math.pow(2, attempt) + jitter
BackoffDelay_FromOne(attempt, jitter) == BaseDelay * Pow2(attempt + 1) + jitter

BackoffDelay(attempt, jitter) == BaseDelay * Pow2(attempt) + jitter

-----------------------------------------------------------------------------
(* cache.json *)

\* loadFileCache: a missing file leaves the map empty; so does a file that
\* cannot be read or parsed (the catch).  JSON.parse gives back the document's
\* objects and every one is set under its key.
loadFileCache_ReadablePart(f) == IF f.state \in {"ok", "corrupt"} THEN f.data ELSE <<>>

loadFileCache(f) == IF f.state = "ok" THEN f.data ELSE <<>>

\* JSON.stringify(data, null, 2): the document holds every key with its
\* object, field by field.  Strings, booleans, null, arrays and finite numbers
\* are written as they are; a number that is NaN or an Infinity is written as
\* null.  The only numbers of a record that a division computes are its
\* percentages.
JSONnumber(x) == IF x.den = 0 THEN NullDetail ELSE x
JSONobject(obj) ==
  [field \in DOMAIN obj |->
     IF field \in {"change", "change24h"} THEN JSONnumber(obj[field]) ELSE obj[field]]
JSONstringify(data) == [key \in DOMAIN data |-> JSONobject(data[key])]

\* saveFileCache: the whole map is written; a failed write is caught.
saveFileCache_ChartsOnly(f, c, written) ==
  IF written
  THEN [state |-> "ok",
        data |-> JSONstringify([key \in {k \in DOMAIN c : k[1] # "detail"} |-> c[key]])]
  ELSE f

saveFileCache(f, c, written) ==
  IF written THEN [state |-> "ok", data |-> JSONstringify(c)] ELSE f

\* cache.json as a previous run of the program left it: no file, a file that
\* does not parse, or the map that run held after a cycle for period `days`,
\* every entry written `age` ms before this start-up.
StaleAge == 90000
FreshAge == 30000
PreviousMap(tks, age, days) ==
  LET syms == {tks[k] : k \in 1..Len(tks)}
      keys == {KeyOf(s, days) : s \in syms}
                \cup {DetailKey(cryptoIds[s]) : s \in {t \in syms : IsCrypto(t)}}
      entry(key) ==
        CASE key[1] = "crypto" ->
               CryptoResult(key[2], key[3], DetailData(cryptoIds[key[2]], T0 - age), T0 - age)
          [] key[1] = "stock" -> StockResult(key[2], key[3], TRUE, T0 - age)
          [] OTHER -> DetailData(key[2], T0 - age)
  IN [key \in keys |-> entry(key)]
Snapshots(tks) ==
  {[state |-> "missing", data |-> <<>>], [state |-> "corrupt", data |-> <<>>]}
    \cup {[state |-> "ok", data |-> PreviousMap(tks, age, PeriodDays[k])] :
            age \in {StaleAge, FreshAge}, k \in {1, 2}}

-----------------------------------------------------------------------------
(* One fetchData invocation.  pc: where it is suspended.
     dispatch     fetchAllAssets is about to take ticker i (or to return)
     limiterWait  in waitForCoinGecko's setTimeout, due at wake
     request      an axios.get of `phase` is in flight
     backoff      in axiosGetWithRetry's setTimeout, due at wake
     done         fetchData has returned
   sent, nfail and lastErr observe the axiosGetWithRetry call in progress;
   chartReqs counts the chart requests issued for ticker i. *)
NoResp == [kind |-> "none", err |-> NoError]
NoEvent == [p |-> 0, resp |-> NoResp, ended |-> "no", sent |-> 0, nfail |-> 0,
            thrown |-> NoError, lastErr |-> NoError]
NoProbe == [fn |-> "none"]
IdleProc ==
  [pc |-> "idle", origin |-> "none", days |-> 0, i |-> 1, results |-> <<>>,
   aborted |-> FALSE, phase |-> "none", attempt |-> 0, wake |-> 0, built |-> 0,
   sent |-> 0, nfail |-> 0, lastErr |-> NoError, chartReqs |-> 0]
NewProc(origin, days) ==
  [IdleProc EXCEPT !.pc = "dispatch", !.origin = origin, !.days = days]

Active(p) == procs[p].pc \notin {"idle", "done"}
\* no microtask is pending: timers, keys and I/O callbacks may run
Quiescent == \A p \in Procs : procs[p].pc # "dispatch"
FreeSlot(p) == procs[p].pc = "idle" /\ \A q \in Procs : q < p => procs[q].pc # "idle"

limiterVars == <<lastCoinGeckoCall, prevCoinGeckoCall, acquires>>
storeVars == <<cache, file>>
configVars == <<tickers, started, probe>>
dashVars == <<currentPeriodIndex, assetsData, assetsDays, connectionError, intervalOn, nextFire>>

InitWith(lists) ==
  /\ clock = T0
  /\ lastCoinGeckoCall = 0
  /\ prevCoinGeckoCall = 0
  /\ acquires = 0
  /\ tickers \in lists
  /\ file \in Snapshots(tickers)
  /\ cache = loadFileCache(file)
  /\ started = FALSE
  /\ currentPeriodIndex = DefaultPeriodIndex
  /\ assetsData = <<>>
  /\ assetsDays = 0
  /\ connectionError = FALSE
  /\ intervalOn = FALSE
  /\ nextFire = 0
  /\ procs = [p \in Procs |-> IdleProc]
  /\ event = NoEvent
  /\ probe = NoProbe

-----------------------------------------------------------------------------
(* The adapters' catch blocks: the stale entry of the call's own key, else a
   placeholder.  The value is what the adapter's promise settles with. *)
CryptoCatch_Rethrow(c, symbol, coinId, days, error) ==
  IF ChartKey(symbol, days) \in DOMAIN c
  THEN [threw |-> FALSE,
        rec |-> Spread(c[ChartKey(symbol, days)], [error |-> TRUE, fromCache |-> TRUE])]
  ELSE [threw |-> TRUE, rec |-> CryptoPlaceholder(symbol, coinId)]

CryptoCatch_AnyLookback(c, symbol, coinId, days, error) ==
  LET mine == {k \in DOMAIN c : k[1] = "crypto" /\ k[2] = symbol}
  IN IF mine # {}
     THEN [threw |-> FALSE,
           rec |-> Spread(c[CHOOSE k \in mine : TRUE], [error |-> TRUE, fromCache |-> TRUE])]
     ELSE [threw |-> FALSE, rec |-> CryptoPlaceholder(symbol, coinId)]

CryptoCatch(c, symbol, coinId, days, error) ==
  IF ChartKey(symbol, days) \in DOMAIN c
  THEN [threw |-> FALSE,
        rec |-> Spread(c[ChartKey(symbol, days)], [error |-> TRUE, fromCache |-> TRUE])]
  ELSE [threw |-> FALSE, rec |-> CryptoPlaceholder(symbol, coinId)]

StockCatch(c, symbol, days, error) ==
  IF StockKey(symbol, days) \in DOMAIN c
  THEN [threw |-> FALSE,
        rec |-> Spread(c[StockKey(symbol, days)], [error |-> TRUE, fromCache |-> TRUE])]
  ELSE [threw |-> FALSE, rec |-> StockPlaceholder(symbol)]

\* results.push(await ...)
PushResult_SkipErrors(results, rec) ==
  IF rec.error THEN results ELSE Append(results, rec)

PushResult(results, rec) == Append(results, rec)

-----------------------------------------------------------------------------
(* index.js: fetchData and its callers *)

\* what follows `await this.fetchData()`: startGameLoop registers the interval
AfterFetchData(pr) ==
  IF pr.origin = "initial"
  THEN intervalOn' = TRUE /\ nextFire' = clock + UpdateInterval
  ELSE UNCHANGED <<intervalOn, nextFire>>

\* fetchAllAssets returned pr.results to fetchData
Return(p, pr) ==
  /\ procs' = [procs EXCEPT ![p] = [pr EXCEPT !.pc = "done"]]
  /\ assetsData' = pr.results
  /\ assetsDays' = pr.days
  /\ connectionError' = (\E k \in 1..Len(pr.results) : pr.results[k].error)
  /\ AfterFetchData(pr)
  /\ UNCHANGED currentPeriodIndex

\* fetchAllAssets threw: fetchData's catch
Throw(p, pr) ==
  /\ procs' = [procs EXCEPT ![p] = [pr EXCEPT !.pc = "done", !.aborted = TRUE]]
  /\ connectionError' = TRUE
  /\ AfterFetchData(pr)
  /\ UNCHANGED <<currentPeriodIndex, assetsData, assetsDays>>

\* the adapter's promise settles with res inside fetchAllAssets' loop
Deliver_SameTickerOnError(p, pr, res) ==
  IF res.threw THEN Throw(p, pr)
  ELSE /\ procs' = [procs EXCEPT ![p] =
                      [pr EXCEPT !.results = IF res.rec.error THEN @ ELSE PushResult(@, res.rec),
                                 !.i = IF res.rec.error THEN @ ELSE @ + 1,
                                 !.pc = "dispatch", !.phase = "none",
                                 !.attempt = 0, !.wake = 0, !.built = 0,
                                 !.sent = 0, !.nfail = 0, !.lastErr = NoError,
                                 !.chartReqs = 0]]
       /\ UNCHANGED dashVars

Deliver(p, pr, res) ==
  IF res.threw THEN Throw(p, pr)
  ELSE /\ procs' = [procs EXCEPT ![p] =
                      [pr EXCEPT !.results = PushResult(@, res.rec), !.i = @ + 1,
                                 !.pc = "dispatch", !.phase = "none",
                                 !.attempt = 0, !.wake = 0, !.built = 0,
                                 !.sent = 0, !.nfail = 0, !.lastErr = NoError,
                                 !.chartReqs = 0]]
       /\ UNCHANGED dashVars

-----------------------------------------------------------------------------
(* waitForCoinGecko and axiosGetWithRetry *)

\* lastCoinGeckoCall = Date.now(); then axios.get(url, options) is issued
Record(p, pr) ==
  /\ lastCoinGeckoCall' = clock
  /\ prevCoinGeckoCall' = lastCoinGeckoCall
  /\ acquires' = acquires + 1
  /\ procs' = [procs EXCEPT ![p] =
                 [pr EXCEPT !.pc = "request", !.wake = 0, !.sent = @ + 1,
                            !.chartReqs = IF pr.phase = "chart" THEN @ + 1 ELSE @]]

\* waitForCoinGecko up to its await (or, with no wait, through to axios.get)
Acquire(p, pr) ==
  LET elapsed == clock - lastCoinGeckoCall
  IN IF elapsed < COINGECKO_DELAY
     THEN /\ procs' = [procs EXCEPT ![p] =
                         [pr EXCEPT !.pc = "limiterWait",
                                    !.wake = clock + (COINGECKO_DELAY - elapsed)]]
          /\ UNCHANGED limiterVars
     ELSE Record(p, pr)

\* a new axiosGetWithRetry call, attempt = 0
FirstAttempt(p, pr, phase) ==
  Acquire(p, [pr EXCEPT !.phase = phase, !.attempt = 0, !.sent = 0, !.nfail = 0,
                        !.lastErr = NoError])

\* observation of a response to process p; ended: "no" (the call goes on to
\* its backoff, or the request was a plain axios.get), "returned" or "threw"
Observed(p, pr, out, ended, thrown) ==
  [p |-> p, resp |-> out, ended |-> ended, sent |-> pr.sent, nfail |-> pr.nfail,
   thrown |-> thrown, lastErr |-> pr.lastErr]

-----------------------------------------------------------------------------
(* fetchCryptoData after the chart: detail, result, store *)

\* lines 146-175: build `result`, cache.set(chartKey), saveFileCache, return
CryptoComplete_RollbackOnWriteFailure(p, pr, detailData, c1, f1) ==
  LET symbol == tickers[pr.i]
      result == CryptoResult(symbol, pr.days, detailData, clock)
      c2 == CacheSet(c1, ChartKey(symbol, pr.days), result)
  IN /\ \E written \in BOOLEAN :
          /\ cache' = IF written THEN c2 ELSE c1
          /\ file' = saveFileCache(f1, c2, written)
     /\ Deliver(p, pr, [threw |-> FALSE, rec |-> result])
     /\ UNCHANGED limiterVars

CryptoComplete(p, pr, detailData, c1, f1) ==
  LET symbol == tickers[pr.i]
      result == CryptoResult(symbol, pr.days, detailData, clock)
  IN /\ cache' = CacheSet(c1, ChartKey(symbol, pr.days), result)
     /\ \E written \in BOOLEAN : file' = saveFileCache(f1, cache', written)
     /\ Deliver(p, pr, [threw |-> FALSE, rec |-> result])
     /\ UNCHANGED limiterVars

\* the chart call of axiosGetWithRetry settled: r.threw with r.err, or a
\* response whose body is r.body
ChartSettled_StoreFallback(p, pr, r) ==
  LET symbol == tickers[pr.i]
      coinId == cryptoIds[symbol]
      detailKey == DetailKey(coinId)
      fallback == CryptoCatch(cache, symbol, coinId, pr.days,
                              IF r.threw THEN r.err ELSE TypeError)
  IN IF r.threw \/ r.body = "malformed"
     THEN /\ Deliver(p, pr, fallback)
          /\ cache' = CacheSet(cache, ChartKey(symbol, pr.days), fallback.rec)
          /\ UNCHANGED <<limiterVars, file>>
     ELSE IF isCacheValid(cache, detailKey, DETAIL_TTL, clock)
     THEN CryptoComplete(p, pr, cache[detailKey], cache, file)
     ELSE /\ FirstAttempt(p, pr, "detail")
          /\ UNCHANGED <<storeVars, dashVars>>

ChartSettled(p, pr, r) ==
  LET symbol == tickers[pr.i]
      coinId == cryptoIds[symbol]
      detailKey == DetailKey(coinId)
  IN IF r.threw \/ r.body = "malformed"
     THEN /\ Deliver(p, pr, CryptoCatch(cache, symbol, coinId, pr.days,
                                        IF r.threw THEN r.err ELSE TypeError))
          /\ UNCHANGED <<limiterVars, storeVars>>
     ELSE IF isCacheValid(cache, detailKey, DETAIL_TTL, clock)
     THEN CryptoComplete(p, pr, cache[detailKey], cache, file)
     ELSE /\ FirstAttempt(p, pr, "detail")
          /\ UNCHANGED <<storeVars, dashVars>>

\* the detail call settled (inner try/catch, lines 117-143)
DetailSettled_FailOnError(p, pr, r) ==
  LET symbol == tickers[pr.i]
      coinId == cryptoIds[symbol]
  IN IF r.threw \/ r.body = "malformed"
     THEN /\ Deliver(p, pr, CryptoCatch(cache, symbol, coinId, pr.days,
                                        IF r.threw THEN r.err ELSE TypeError))
          /\ UNCHANGED <<limiterVars, storeVars>>
     ELSE LET detailData == DetailData(coinId, clock)
              c1 == CacheSet(cache, DetailKey(coinId), detailData)
          IN \E written \in BOOLEAN :
               CryptoComplete(p, pr, detailData, c1, saveFileCache(file, c1, written))

DetailSettled(p, pr, r) ==
  LET coinId == cryptoIds[tickers[pr.i]]
  IN IF r.threw \/ r.body = "malformed"
     THEN CryptoComplete(p, pr, NullDetail, cache, file)
     ELSE LET detailData == DetailData(coinId, clock)
              c1 == CacheSet(cache, DetailKey(coinId), detailData)
          IN \E written \in BOOLEAN :
               CryptoComplete(p, pr, detailData, c1, saveFileCache(file, c1, written))

-----------------------------------------------------------------------------
(* Actions *)

\* dashboard.start(): startGameLoop calls fetchData
Start ==
  /\ event' = NoEvent
  /\ ~started
  /\ started' = TRUE
  /\ procs' = [procs EXCEPT ![1] = NewProc("initial", PeriodDays[currentPeriodIndex])]
  /\ connectionError' = FALSE
  /\ UNCHANGED <<clock, limiterVars, storeVars, tickers, probe, currentPeriodIndex,
                 assetsData, assetsDays, intervalOn, nextFire>>

\* key 1-4: switchPeriod(periodIndex) up to its await of fetchData, which runs
\* to fetchAllAssets.  Pressing the current period's key returns at once.
switchPeriod(periodIndex) ==
  /\ event' = NoEvent
  /\ started /\ Quiescent
  /\ periodIndex >= 0 /\ periodIndex < 4
  /\ currentPeriodIndex # periodIndex
  /\ currentPeriodIndex' = periodIndex
  /\ connectionError' = FALSE
  /\ \E p \in Procs :
       /\ FreeSlot(p)
       /\ procs' = [procs EXCEPT ![p] = NewProc("key", PeriodDays[periodIndex])]
  /\ UNCHANGED <<clock, limiterVars, storeVars, configVars, assetsData, assetsDays,
                 intervalOn, nextFire>>

\* the setInterval callback of startGameLoop
IntervalFire ==
  /\ event' = NoEvent
  /\ intervalOn /\ Quiescent
  /\ clock >= nextFire
  /\ nextFire' = nextFire + UpdateInterval
  /\ connectionError' = FALSE
  /\ \E p \in Procs :
       /\ FreeSlot(p)
       /\ procs' = [procs EXCEPT ![p] = NewProc("interval", PeriodDays[currentPeriodIndex])]
  /\ UNCHANGED <<clock, limiterVars, storeVars, configVars, currentPeriodIndex,
                 assetsData, assetsDays, intervalOn>>

\* fetchAllAssets takes ticker i: the adapter runs to its first suspension,
\* or returns the valid cache entry; past the last ticker, fetchData finishes
Dispatch(p) ==
  LET pr == procs[p]
  IN /\ pr.pc = "dispatch"
     /\ event' = NoEvent
     /\ IF pr.i > Len(tickers)
        THEN /\ Return(p, pr)
             /\ UNCHANGED <<limiterVars, storeVars>>
        ELSE LET ticker == tickers[pr.i]
                 key == KeyOf(ticker, pr.days)
                 pr0 == pr
             IN IF isCacheValid(cache, key, CACHE_TTL, clock)
                THEN /\ Deliver(p, pr0, [threw |-> FALSE,
                                         rec |-> Spread(cache[key], [fromCache |-> TRUE])])
                     /\ UNCHANGED <<limiterVars, storeVars>>
                ELSE IF IsCrypto(ticker)
                THEN /\ FirstAttempt(p, pr0, "chart")
                     /\ UNCHANGED <<storeVars, dashVars>>
                ELSE /\ procs' = [procs EXCEPT ![p] =
                                    [pr0 EXCEPT !.pc = "request", !.phase = "schart",
                                                !.chartReqs = 1]]
                     /\ UNCHANGED <<limiterVars, storeVars, dashVars>>
     /\ UNCHANGED <<clock, configVars>>

\* waitForCoinGecko's timer fires
LimiterWake(p) ==
  /\ Quiescent
  /\ procs[p].pc = "limiterWait"
  /\ event' = NoEvent
  /\ clock >= procs[p].wake
  /\ Record(p, procs[p])
  /\ UNCHANGED <<clock, storeVars, configVars, dashVars>>

\* axiosGetWithRetry's backoff timer fires: attempt++, next iteration
BackoffWake_SkipLimiter(p) ==
  /\ Quiescent
  /\ procs[p].pc = "backoff"
  /\ event' = NoEvent
  /\ clock >= procs[p].wake
  /\ procs' = [procs EXCEPT ![p] =
                 [@ EXCEPT !.attempt = @ + 1, !.pc = "request", !.wake = 0, !.sent = @ + 1,
                           !.chartReqs = IF procs[p].phase = "chart" THEN @ + 1 ELSE @]]
  /\ UNCHANGED <<clock, limiterVars, storeVars, configVars, dashVars>>

BackoffWake(p) ==
  /\ Quiescent
  /\ procs[p].pc = "backoff"
  /\ event' = NoEvent
  /\ clock >= procs[p].wake
  /\ Acquire(p, [procs[p] EXCEPT !.attempt = @ + 1])
  /\ UNCHANGED <<clock, storeVars, configVars, dashVars>>

\* a request of axiosGetWithRetry (crypto chart or detail) comes back
RetryResponse(p, out) ==
  LET pr == procs[p]
      settled(q, r) == IF pr.phase = "chart" THEN ChartSettled(p, q, r)
                       ELSE DetailSettled(p, q, r)
  IN /\ Quiescent
     /\ pr.pc = "request"
     /\ pr.phase \in {"chart", "detail"}
     /\ IF out.kind = "error"
        THEN LET pr1 == [pr EXCEPT !.nfail = @ + 1, !.lastErr = out.err]
             IN IF MoreAttempts(pr.attempt) /\ ShouldRetry(out.err)
                THEN /\ \E jitter \in Jitters :
                          procs' = [procs EXCEPT ![p] =
                                      [pr1 EXCEPT !.pc = "backoff",
                                                  !.wake = clock + BackoffDelay(pr.attempt, jitter)]]
                     /\ event' = Observed(p, pr1, out, "no", NoError)
                     /\ UNCHANGED <<limiterVars, storeVars, dashVars>>
                ELSE /\ event' = Observed(p, pr1, out, "threw", out.err)
                     /\ settled(pr1, [threw |-> TRUE, err |-> out.err, body |-> "none"])
        ELSE /\ event' = Observed(p, pr, out, "returned", NoError)
             /\ settled(pr, [threw |-> FALSE, err |-> NoError, body |-> out.kind])
     /\ UNCHANGED <<clock, configVars>>

\* the equity chart request (a plain axios.get) comes back
StockChartResponse(p, out) ==
  LET pr == procs[p]
      symbol == tickers[pr.i]
  IN /\ Quiescent
     /\ pr.pc = "request"
     /\ pr.phase = "schart"
     /\ event' = Observed(p, pr, out, "no", NoError)
     /\ IF out.kind = "ok"
        THEN /\ procs' = [procs EXCEPT ![p] = [pr EXCEPT !.phase = "quote", !.built = clock]]
             /\ UNCHANGED <<storeVars, dashVars>>
        ELSE /\ Deliver(p, pr, StockCatch(cache, symbol, pr.days,
                                          IF out.kind = "error" THEN out.err ELSE TypeError))
             /\ UNCHANGED storeVars
     /\ UNCHANGED <<clock, limiterVars, configVars>>

\* the equity quote request comes back; any failure is swallowed
QuoteResponse(p, out) ==
  LET pr == procs[p]
      symbol == tickers[pr.i]
      data == StockResult(symbol, pr.days, out.kind = "ok", pr.built)
  IN /\ Quiescent
     /\ pr.pc = "request"
     /\ pr.phase = "quote"
     /\ event' = Observed(p, pr, out, "no", NoError)
     /\ cache' = CacheSet(cache, StockKey(symbol, pr.days), data)
     /\ \E written \in BOOLEAN : file' = saveFileCache(file, cache', written)
     /\ Deliver(p, pr, [threw |-> FALSE, rec |-> data])
     /\ UNCHANGED <<clock, limiterVars, configVars>>

\* time passes
Tick ==
  /\ event' = NoEvent
  /\ started /\ Quiescent
  /\ clock + Step <= MaxClock
  /\ clock' = clock + Step
  /\ UNCHANGED <<limiterVars, storeVars, configVars, dashVars, procs>>

Next ==
  \/ Start
  \/ \E k \in 0..3 : switchPeriod(k)
  \/ IntervalFire
  \/ \E p \in Procs : Dispatch(p)
  \/ \E p \in Procs : LimiterWake(p)
  \/ \E p \in Procs : BackoffWake(p)
  \/ \E p \in Procs, out \in Outcomes : RetryResponse(p, out)
  \/ \E p \in Procs, out \in Outcomes : StockChartResponse(p, out)
  \/ \E p \in Procs, out \in Outcomes : QuoteResponse(p, out)
  \/ Tick

Init == InitWith(DashTickerLists)
Spec == Init /\ [][Next]_vars

(* One fetch cycle on its own: the fetchData call of startGameLoop, from
   dispatch of the first ticker to the return of fetchAllAssets, with no key
   pressed and the interval longer than the cycle. *)
InitCycle == InitWith(TickerLists)
NextCycle ==
  \/ Start
  \/ \E p \in Procs : Dispatch(p)
  \/ \E p \in Procs : LimiterWake(p)
  \/ \E p \in Procs : BackoffWake(p)
  \/ \E p \in Procs, out \in Outcomes : RetryResponse(p, out)
  \/ \E p \in Procs, out \in Outcomes : StockChartResponse(p, out)
  \/ \E p \in Procs, out \in Outcomes : QuoteResponse(p, out)
  \/ Tick

SpecCycle == InitCycle /\ [][NextCycle]_vars

(* One fetch cycle to its end.  Time does not stop at the horizon while a
   timer is pending: it goes on for as long as the timers of one cycle can
   take (per ticker a limiter wait and three backoffs for the chart, and the
   same for the detail).  Every request in flight eventually comes back,
   every timer that is due eventually fires, every pending microtask runs
   and time passes. *)
TimerPending ==
  \E p \in Procs : procs[p].pc \in {"limiterWait", "backoff"} /\ procs[p].wake > clock
TickLive ==
  /\ event' = NoEvent
  /\ started /\ Quiescent
  /\ \/ clock + Step <= MaxClock
     \/ TimerPending /\ clock + Step <= MaxClock + 8 * MaxTickers * Step
  /\ clock' = clock + Step
  /\ UNCHANGED <<limiterVars, storeVars, configVars, dashVars, procs>>

NextLive ==
  \/ Start
  \/ \E p \in Procs : Dispatch(p)
  \/ \E p \in Procs : LimiterWake(p)
  \/ \E p \in Procs : BackoffWake(p)
  \/ \E p \in Procs, out \in Outcomes : RetryResponse(p, out)
  \/ \E p \in Procs, out \in Outcomes : StockChartResponse(p, out)
  \/ \E p \in Procs, out \in Outcomes : QuoteResponse(p, out)
  \/ TickLive

Fairness ==
  /\ WF_vars(TickLive)
  /\ \A p \in Procs :
       /\ WF_vars(Dispatch(p))
       /\ WF_vars(LimiterWake(p))
       /\ WF_vars(BackoffWake(p))
       /\ WF_vars(\E out \in Outcomes : RetryResponse(p, out))
       /\ WF_vars(\E out \in Outcomes : StockChartResponse(p, out))
       /\ WF_vars(\E out \in Outcomes : QuoteResponse(p, out))

SpecLive == InitCycle /\ [][NextLive]_vars /\ Fairness

-----------------------------------------------------------------------------
(* isCacheValid on its own: every combination of a cache with no entry, an
   entry without a timestamp or an entry stored at t, a clock and a ttl. *)
MaxProbe == 4
ProbeKey == ChartKey("BTC", 7)
ProbeCaches ==
  {<<>>, (ProbeKey :> CryptoPlaceholder("BTC", "bitcoin"))}
    \cup {(ProbeKey :> CryptoResult("BTC", 7, NullDetail, t)) : t \in 0..MaxProbe}

InitValid ==
  /\ clock \in 0..MaxProbe
  /\ cache \in ProbeCaches
  /\ probe \in {[fn |-> "isCacheValid", ttl |-> ttl, result |-> "pending"] : ttl \in 0..MaxProbe}
  /\ lastCoinGeckoCall = 0
  /\ prevCoinGeckoCall = 0
  /\ acquires = 0
  /\ tickers = <<>>
  /\ file = [state |-> "missing", data |-> <<>>]
  /\ started = FALSE
  /\ currentPeriodIndex = DefaultPeriodIndex
  /\ assetsData = <<>>
  /\ assetsDays = 0
  /\ connectionError = FALSE
  /\ intervalOn = FALSE
  /\ nextFire = 0
  /\ procs = [p \in Procs |-> IdleProc]
  /\ event = NoEvent

CallIsCacheValid ==
  /\ probe.fn = "isCacheValid"
  /\ probe.result = "pending"
  /\ probe' = [probe EXCEPT !.result =
                 IF isCacheValid(cache, ProbeKey, probe.ttl, clock) THEN "true" ELSE "false"]
  /\ UNCHANGED <<clock, limiterVars, storeVars, tickers, started, dashVars, procs, event>>

SpecValid == InitValid /\ [][CallIsCacheValid]_vars

-----------------------------------------------------------------------------
(* The adapters' arithmetic, field by field.  The scheduling model above keeps
   a record's series as Series(symbol, days); here the provider's response is
   data and the record is computed from it.

   A value that may be null or undefined is a sequence of at most one
   element: <<>> or <<v>>.  A field whose value is undefined is a field the
   record does not have.  A percentage is the exact quotient num / den (the
   code computes it in floating point); den = 0 is a division by zero, whose
   JavaScript value is NaN or an Infinity. *)

\* x || d and x ?? d, x a number that may be missing
OrElse(x, d) == IF x # <<>> /\ x[1] # 0 THEN x[1] ELSE d
Coalesce(x, d) == IF x # <<>> THEN x[1] ELSE d
\* x || null
OrNull(x) == IF x # <<>> /\ x[1] # 0 THEN x ELSE <<>>
\* x ?? y, y itself possibly missing
Either(x, y) == IF x # <<>> THEN x ELSE y
\* xs[k - 1]: undefined outside the array
At(xs, k) == IF k \in 1..Len(xs) THEN <<xs[k]>> ELSE <<>>

Num(n) == [num |-> n, den |-> 1]

\* base > 0 ? ((currentPrice - base) / base) * 100 : 0
PercentChange_NonZeroGuard(currentPrice, base) ==
  IF base # 0 THEN [num |-> (currentPrice - base) * 100, den |-> base] ELSE Num(0)

PercentChange(currentPrice, base) ==
  IF base > 0 THEN [num |-> (currentPrice - base) * 100, den |-> base] ELSE Num(0)

\* Math.max(...xs), Math.min(...xs) of a non-empty array
MaxOf(xs) == CHOOSE m \in {xs[k] : k \in 1..Len(xs)} : \A k \in 1..Len(xs) : xs[k] <= m
MinOf(xs) == CHOOSE m \in {xs[k] : k \in 1..Len(xs)} : \A k \in 1..Len(xs) : m <= xs[k]

RECURSIVE Filter(_, _)
\* the elements of xs whose index is in keep, in order
Filter(xs, keep) ==
  IF xs = <<>> THEN <<>>
  ELSE LET rest == Filter(SubSeq(xs, 1, Len(xs) - 1), keep)
       IN IF Len(xs) \in keep THEN Append(rest, xs[Len(xs)]) ELSE rest

\* val !== null && val !== undefined && !isNaN(val)
ValidSample(val) == val # <<>>

\* fetchCryptoData, lines 99-111.  pairs: chartResponse.data.prices, each pair
\* [ts |-> , val |-> ]
KeptPairs(pairs) == Filter(pairs, {k \in 1..Len(pairs) : ValidSample(pairs[k].val)})

prices_NoSeed(pairs) ==
  [k \in 1..Len(KeptPairs(pairs)) |-> KeptPairs(pairs)[k].val[1]]

prices(pairs) ==
  LET kept == KeptPairs(pairs)
      pushed == [k \in 1..Len(kept) |-> kept[k].val[1]]
  IN IF Len(pushed) = 0 THEN <<0>> ELSE pushed

\* timestamps.push(typeof ts === 'number' ? ts : Date.now())
timestamps_OnlyNumbers(pairs, now) ==
  LET kept == Filter(pairs, {k \in 1..Len(pairs) :
                               ValidSample(pairs[k].val) /\ pairs[k].ts # <<>>})
  IN [k \in 1..Len(kept) |-> kept[k].ts[1]]

timestamps(pairs, now) ==
  LET kept == KeptPairs(pairs)
  IN [k \in 1..Len(kept) |-> Coalesce(kept[k].ts, now)]

validPrices(history) == Filter(history, {k \in 1..Len(history) : history[k] > 0})

\* detailData, lines 123-137.  md: detailResponse.data.market_data with the
\* `.usd` of each price already taken
detailDataOf(md, now) ==
  [currentPrice |-> OrNull(md.current_price),
   change24h |-> Num(OrElse(md.price_change_percentage_24h, 0)),
   high24h |-> OrNull(md.high_24h),
   low24h |-> OrNull(md.low_24h),
   marketCap |-> OrElse(md.market_cap, 0),
   timestamp |-> now]

\* detailData?.field, detailData being null or an object
DetailField(detailData, field) ==
  IF detailData = NullDetail THEN <<>>
  ELSE IF field \in {"currentPrice", "high24h", "low24h"} THEN detailData[field]
  ELSE <<detailData[field]>>

\* (detailData?.currentPrice ?? prices[prices.length - 1]) || 0
cryptoCurrentPrice_FirstSample(history, detailData) ==
  OrElse(Either(DetailField(detailData, "currentPrice"), At(history, 1)), 0)

cryptoCurrentPrice(history, detailData) ==
  OrElse(Either(DetailField(detailData, "currentPrice"), At(history, Len(history))), 0)

\* prices[0] || currentPrice
firstPrice(history, currentPrice) == OrElse(At(history, 1), currentPrice)

\* the `result` object, lines 146-171.  Of the fields that are
\* `detailData?.x ?? 0` (high52w, low52w, marketCap, volume, circulatingSupply,
\* totalSupply, rank) marketCap stands for all.
CryptoAsset(symbol, pairs, detailData, now) ==
  LET history == prices(pairs)
      valid == validPrices(history)
      currentPrice == cryptoCurrentPrice(history, detailData)
      extreme(field, ofValid) ==
        OrElse(<<Coalesce(DetailField(detailData, field),
                          IF Len(valid) > 0 THEN ofValid ELSE 0)>>, 0)
  IN [symbol |-> symbol,
      type |-> "crypto",
      price |-> currentPrice,
      change |-> PercentChange(currentPrice, firstPrice(history, currentPrice)),
      change24h |-> Coalesce(DetailField(detailData, "change24h"), Num(0)),
      history |-> history,
      timestamps |-> timestamps(pairs, now),
      open |-> OrElse(At(history, 1), 0),
      high |-> extreme("high24h", MaxOf(valid)),
      low |-> extreme("low24h", MinOf(valid)),
      marketCap |-> Coalesce(DetailField(detailData, "marketCap"), 0),
      timestamp |-> now,
      error |-> FALSE]

\* the placeholder of fetchCryptoData's catch, lines 184-202
CryptoZeroAsset(symbol) ==
  [symbol |-> symbol, type |-> "crypto", price |-> 0, change |-> Num(0),
   change24h |-> Num(0), history |-> <<0>>, open |-> 0, high |-> 0, low |-> 0,
   marketCap |-> 0, error |-> TRUE]

\* fetchStockData, lines 214-228: the chart request's range and interval
RangeFor_Exclusive(days) ==
  IF days <= 1 THEN [range |-> "1d", interval |-> "1h"]
  ELSE IF days <= 7 THEN [range |-> "7d", interval |-> "1d"]
  ELSE IF days < 30 THEN [range |-> "1mo", interval |-> "1d"]
  ELSE [range |-> "3mo", interval |-> "1d"]

RangeFor(days) ==
  IF days <= 1 THEN [range |-> "1d", interval |-> "1h"]
  ELSE IF days <= 7 THEN [range |-> "7d", interval |-> "1d"]
  ELSE IF days <= 30 THEN [range |-> "1mo", interval |-> "1d"]
  ELSE [range |-> "3mo", interval |-> "1d"]

\* lines 243-256.  result: response.data.chart.result[0] as
\* [meta |-> , close |-> quote.close, open |-> quote.open, timestamp |-> ]
KeptCloses(rawCloses) == {k \in 1..Len(rawCloses) : ValidSample(rawCloses[k])}

closePrices(rawCloses) ==
  LET kept == Filter(rawCloses, KeptCloses(rawCloses))
      pushed == [k \in 1..Len(kept) |-> kept[k][1]]
  IN IF Len(pushed) = 0 THEN <<0>> ELSE pushed

\* timestamps.push(typeof ts === 'number' ? ts * 1000 : Date.now())
closeTimestamps(rawCloses, rawTimestamps, now) ==
  LET at == [k \in 1..Len(rawCloses) |->
               IF k <= Len(rawTimestamps) THEN rawTimestamps[k] * 1000 ELSE now]
  IN Filter(at, KeptCloses(rawCloses))

\* meta.regularMarketPrice || closePrices[closePrices.length - 1] || 0
stockCurrentPrice(meta, history) ==
  OrElse(meta.regularMarketPrice, OrElse(At(history, Len(history)), 0))

\* meta.chartPreviousClose || closePrices[0] || currentPrice
previousClose(meta, history, currentPrice) ==
  OrElse(meta.chartPreviousClose, OrElse(At(history, 1), currentPrice))

\* the `data` object, lines 258-289.  Of the fields set from meta or to a
\* constant (high52w, low52w, volume, avgVolume, pe) none is kept.
StockData(symbol, result, now) ==
  LET history == closePrices(result.close)
      valid == validPrices(history)
      currentPrice == stockCurrentPrice(result.meta, history)
      previous == previousClose(result.meta, history, currentPrice)
      change == PercentChange(currentPrice, previous)
      openPrices == Filter(result.open, {k \in 1..Len(result.open) : result.open[k] # <<>>})
  IN [symbol |-> symbol,
      currency |-> result.meta.currency,
      type |-> result.meta.instrumentType,
      price |-> currentPrice,
      change |-> change,
      change24h |-> change,
      history |-> history,
      timestamps |-> closeTimestamps(result.close, result.timestamp, now),
      open |-> IF Len(openPrices) > 0
               THEN OrElse(openPrices[Len(openPrices)], previous) ELSE previous,
      previousClose |-> previous,
      high |-> OrElse(result.meta.regularMarketDayHigh,
                      IF Len(valid) > 0 THEN MaxOf(valid) ELSE 0),
      low |-> OrElse(result.meta.regularMarketDayLow,
                     IF Len(valid) > 0 THEN MinOf(valid) ELSE 0),
      marketCap |-> 0,
      timestamp |-> now,
      error |-> FALSE]

\* lines 299-307: quoteData, when there is one, overrides
MergeQuote(data, quoteData) ==
  IF quoteData = <<>> THEN data
  ELSE [data EXCEPT !.marketCap = OrElse(quoteData[1].marketCap, 0),
                    !.open = OrElse(quoteData[1].regularMarketOpen, data.open)]

\* the placeholder of fetchStockData's catch, lines 323-341
StockZeroAsset(symbol) ==
  [symbol |-> symbol, type |-> "stock", price |-> 0, change |-> Num(0),
   change24h |-> Num(0), history |-> <<0>>, open |-> 0, previousClose |-> 0,
   high |-> 0, low |-> 0, marketCap |-> 0, error |-> TRUE]

-----------------------------------------------------------------------------
(* One adapter call after another on one DataService, for one symbol and one
   lookback (probe.symbol, probe.days), the provider's responses being data.
   A call is taken from its entry to the chart request (AdapterCall) and from
   the chart response to its return (CryptoReply, StockReply): the retries
   and waits in between change no data.  probe.rec is the record the last
   call returned. *)
MaxSeries == 2          \* samples in a provider series
MaxDataTicks == 1       \* clock steps in one behaviour
DataStep == 70000       \* ms per clock step
MaxDays == 60           \* largest lookback of a chart request on its own

\* a sample: invalid (null, undefined, NaN), negative, zero, positive
SampleValues == {<<>>, <<-5>>, <<0>>, <<100>>}
\* a pair of chartResponse.data.prices; one has no timestamp
Pairs ==
  {[ts |-> <<1000>>, val |-> val] : val \in SampleValues}
    \cup {[ts |-> <<>>, val |-> <<100>>]}
ExamplePairs ==
  <<[ts |-> <<1000>>, val |-> <<100>>], [ts |-> <<2000>>, val |-> <<105>>],
    [ts |-> <<3000>>, val |-> <<110>>]>>
PairLists == SeqsOf(Pairs, MaxSeries) \cup {ExamplePairs}

\* the chart call of fetchCryptoData as axiosGetWithRetry settles it
ChartReplies ==
  {[kind |-> "ok", prices |-> pairs] : pairs \in PairLists}
    \cup {[kind |-> "malformed"], [kind |-> "error"]}

MarketData(current) ==
  [current_price |-> current, price_change_percentage_24h |-> <<2>>,
   high_24h |-> <<130>>, low_24h |-> <<90>>, market_cap |-> <<5000>>]
EmptyMarketData ==
  [current_price |-> <<>>, price_change_percentage_24h |-> <<>>,
   high_24h |-> <<>>, low_24h |-> <<>>, market_cap |-> <<>>]
DetailReplies ==
  {[kind |-> "ok", market_data |-> md] :
     md \in {MarketData(<<120>>), MarketData(<<0>>), MarketData(<<-3>>), EmptyMarketData}}
    \cup {[kind |-> "error"]}

Meta(price, previous, dayHigh) ==
  [regularMarketPrice |-> price, chartPreviousClose |-> previous,
   regularMarketDayHigh |-> dayHigh, regularMarketDayLow |-> dayHigh,
   currency |-> "USD", instrumentType |-> "EQUITY"]
Metas ==
  {Meta(price, previous, <<>>) : price \in {<<>>, <<-1>>, <<120>>},
                                 previous \in {<<>>, <<-5>>, <<100>>}}
    \cup {Meta(<<120>>, <<100>>, <<125>>)}
\* result.timestamp has one element per close; with no meta it may be one
\* short, and quote.open may have samples
StockResults ==
  {[meta |-> meta, close |-> close, open |-> <<>>,
    timestamp |-> [k \in 1..Len(close) |-> k]] :
     meta \in Metas, close \in SeqsOf(SampleValues, MaxSeries)}
    \cup {[meta |-> Meta(<<>>, <<>>, <<>>), close |-> close, open |-> <<<<>>, <<101>>>>,
           timestamp |-> [k \in 1..(Len(close) - 1) |-> k]] :
            close \in SeqsOf(SampleValues, MaxSeries) \ {<<>>}}
StockReplies ==
  {[kind |-> "ok", result |-> r] : r \in StockResults}
    \cup {[kind |-> "malformed"], [kind |-> "error"]}
QuoteReplies ==
  {[kind |-> "error"], [kind |-> "ok", quoteData |-> <<>>],
   [kind |-> "ok", quoteData |-> <<[marketCap |-> <<7000>>, regularMarketOpen |-> <<102>>]>>]}

\* probe of an adapter: pc "idle" or "chart" (the chart request is in
\* flight); request: the chart request's params; path: how the last call
\* returned ("hit", "fresh", "stale", "zero"); reply, detail: what it was
\* given.  Every write of cache.json succeeds here.
IdleAdapter(symbol, days) ==
  [fn |-> "adapter", symbol |-> symbol, days |-> days, pc |-> "idle",
   request |-> <<>>, path |-> "none", rec |-> <<>>, reply |-> <<>>,
   detail |-> "none"]

Returned(path, rec, reply, detail) ==
  [probe EXCEPT !.pc = "idle", !.path = path, !.rec = <<rec>>, !.reply = reply,
                !.detail = detail]

\* the catch of either adapter: the entry under the call's key, else zeroes
StaleOrZero(c, key, zero) ==
  IF key \in DOMAIN c THEN Spread(c[key], [error |-> TRUE, fromCache |-> TRUE]) ELSE zero

\* entry of fetchCryptoData or fetchStockData, up to the chart request
AdapterCall ==
  LET key == KeyOf(probe.symbol, probe.days)
  IN /\ probe.fn = "adapter" /\ probe.pc = "idle"
     /\ IF isCacheValid(cache, key, CACHE_TTL, clock)
        THEN /\ probe' = Returned("hit", Spread(cache[key], [fromCache |-> TRUE]),
                                  <<>>, "none")
             /\ UNCHANGED lastCoinGeckoCall
        ELSE /\ probe' = [probe EXCEPT
                            !.pc = "chart", !.path = "none", !.rec = <<>>,
                            !.reply = <<>>, !.detail = "none",
                            !.request = IF IsCrypto(probe.symbol)
                                        THEN <<[vs_currency |-> "usd", days |-> probe.days]>>
                                        ELSE <<RangeFor(probe.days)>>]
             /\ lastCoinGeckoCall' =
                  IF IsCrypto(probe.symbol) THEN clock ELSE lastCoinGeckoCall
     /\ UNCHANGED <<clock, prevCoinGeckoCall, acquires, storeVars, tickers, started,
                    dashVars, procs, event>>

\* fetchCryptoData from the chart response to its return
CryptoReply(chart, detail) ==
  LET symbol == probe.symbol
      chartKey == ChartKey(symbol, probe.days)
      detailKey == DetailKey(cryptoIds[symbol])
      cached == isCacheValid(cache, detailKey, DETAIL_TTL, clock)
      fetched == ~cached /\ detail.kind = "ok"
      detailData == IF cached THEN cache[detailKey]
                    ELSE IF fetched THEN detailDataOf(detail.market_data, clock)
                    ELSE NullDetail
      c1 == IF fetched THEN CacheSet(cache, detailKey, detailData) ELSE cache
      f1 == IF fetched THEN saveFileCache(file, c1, TRUE) ELSE file
      result == CryptoAsset(symbol, chart.prices, detailData, clock)
      c2 == CacheSet(c1, chartKey, result)
  IN /\ probe.fn = "adapter" /\ probe.pc = "chart" /\ IsCrypto(symbol)
     /\ IF chart.kind # "ok"
        THEN /\ probe' = Returned(IF chartKey \in DOMAIN cache THEN "stale" ELSE "zero",
                                  StaleOrZero(cache, chartKey, CryptoZeroAsset(symbol)),
                                  <<chart>>, "none")
             /\ UNCHANGED <<storeVars, lastCoinGeckoCall>>
        ELSE /\ cache' = c2
             /\ file' = saveFileCache(f1, c2, TRUE)
             /\ lastCoinGeckoCall' = IF cached THEN lastCoinGeckoCall ELSE clock
             /\ probe' = Returned("fresh", result, <<chart>>,
                                  IF cached THEN "cached" ELSE IF fetched THEN "fetched" ELSE "none")
     /\ UNCHANGED <<clock, prevCoinGeckoCall, acquires, tickers, started, dashVars,
                    procs, event>>

\* fetchStockData from the chart response to its return
StockReply(reply, quote) ==
  LET symbol == probe.symbol
      cacheKey == StockKey(symbol, probe.days)
      data == MergeQuote(StockData(symbol, reply.result, clock),
                         IF quote.kind = "ok" THEN quote.quoteData ELSE <<>>)
      c1 == CacheSet(cache, cacheKey, data)
  IN /\ probe.fn = "adapter" /\ probe.pc = "chart" /\ ~IsCrypto(symbol)
     /\ IF reply.kind # "ok"
        THEN /\ probe' = Returned(IF cacheKey \in DOMAIN cache THEN "stale" ELSE "zero",
                                  StaleOrZero(cache, cacheKey, StockZeroAsset(symbol)),
                                  <<reply>>, "none")
             /\ UNCHANGED storeVars
        ELSE /\ cache' = c1
             /\ file' = saveFileCache(file, c1, TRUE)
             /\ probe' = Returned("fresh", data, <<reply>>, "none")
     /\ UNCHANGED <<clock, limiterVars, tickers, started, dashVars, procs, event>>

\* time passes
DataTick ==
  /\ probe.fn = "adapter"
  /\ clock + DataStep <= T0 + MaxDataTicks * DataStep
  /\ clock' = clock + DataStep
  /\ UNCHANGED <<limiterVars, storeVars, tickers, started, dashVars, procs, event, probe>>

\* the program is started again: new DataService(), which loads cache.json
Restart ==
  /\ probe.fn = "adapter" /\ probe.pc = "idle"
  /\ cache' = loadFileCache(file)
  /\ lastCoinGeckoCall' = 0
  /\ probe' = IdleAdapter(probe.symbol, probe.days)
  /\ UNCHANGED <<clock, prevCoinGeckoCall, acquires, file, tickers, started, dashVars,
                 procs, event>>

InitData ==
  /\ clock = T0
  /\ cache = <<>>
  /\ file = [state |-> "missing", data |-> <<>>]
  /\ probe \in {IdleAdapter(symbol, PeriodDays[DefaultPeriodIndex]) : symbol \in Symbols}
  /\ lastCoinGeckoCall = 0
  /\ prevCoinGeckoCall = 0
  /\ acquires = 0
  /\ tickers = <<>>
  /\ started = FALSE
  /\ currentPeriodIndex = DefaultPeriodIndex
  /\ assetsData = <<>>
  /\ assetsDays = 0
  /\ connectionError = FALSE
  /\ intervalOn = FALSE
  /\ nextFire = 0
  /\ procs = [p \in Procs |-> IdleProc]
  /\ event = NoEvent

NextData ==
  \/ AdapterCall
  \/ \E chart \in ChartReplies, detail \in DetailReplies : CryptoReply(chart, detail)
  \/ \E reply \in StockReplies, quote \in QuoteReplies : StockReply(reply, quote)
  \/ DataTick
  \/ Restart

SpecData == InitData /\ [][NextData]_vars

\* the chart request of fetchStockData on its own, for every lookback
InitRange ==
  /\ InitData!1 /\ InitData!2 /\ InitData!3
  /\ probe \in {IdleAdapter("AAPL", days) : days \in 0..MaxDays}
  /\ lastCoinGeckoCall = 0
  /\ prevCoinGeckoCall = 0
  /\ acquires = 0
  /\ tickers = <<>>
  /\ started = FALSE
  /\ currentPeriodIndex = DefaultPeriodIndex
  /\ assetsData = <<>>
  /\ assetsDays = 0
  /\ connectionError = FALSE
  /\ intervalOn = FALSE
  /\ nextFire = 0
  /\ procs = [p \in Procs |-> IdleProc]
  /\ event = NoEvent

SpecRange == InitRange /\ [][AdapterCall]_vars

-----------------------------------------------------------------------------
(* A DataService constructed on the cache.json a previous run left, whole or
   damaged, and the adapter calls that follow.  file.state: "missing" (no
   file), "unreadable" (readFileSync throws), "corrupt" (JSON.parse throws:
   a document cut short or overwritten in part, file.data being the entries
   whose text is still in it), "ok".  probe.loaded keeps the state of the
   file the constructor found. *)
PreviousData(age) ==
  (ChartKey("BTC", 7) :>
     CryptoAsset("BTC", ExamplePairs, detailDataOf(MarketData(<<120>>), T0 - age), T0 - age))
    @@ (DetailKey("bitcoin") :> detailDataOf(MarketData(<<120>>), T0 - age))
    @@ (StockKey("AAPL", 7) :>
          StockData("AAPL", [meta |-> Meta(<<120>>, <<100>>, <<125>>),
                             close |-> <<<<100>>, <<110>>>>, open |-> <<>>,
                             timestamp |-> <<1, 2>>], T0 - age))
StartFiles ==
  {[state |-> "missing", data |-> <<>>]}
    \cup {[state |-> st, data |-> JSONstringify(PreviousData(FreshAge))] :
            st \in {"ok", "corrupt", "unreadable"}}
    \cup {[state |-> "corrupt", data |-> JSONstringify(PreviousData(StaleAge))]}

InitLoad ==
  /\ clock = T0
  /\ file \in StartFiles
  /\ cache = loadFileCache(file)
  /\ probe \in {[loaded |-> file.state] @@ IdleAdapter(symbol, PeriodDays[DefaultPeriodIndex]) :
                  symbol \in Symbols}
  /\ lastCoinGeckoCall = 0
  /\ prevCoinGeckoCall = 0
  /\ acquires = 0
  /\ tickers = <<>>
  /\ started = FALSE
  /\ currentPeriodIndex = DefaultPeriodIndex
  /\ assetsData = <<>>
  /\ assetsDays = 0
  /\ connectionError = FALSE
  /\ intervalOn = FALSE
  /\ nextFire = 0
  /\ procs = [p \in Procs |-> IdleProc]
  /\ event = NoEvent

NextLoad ==
  \/ AdapterCall
  \/ \E chart \in ChartReplies, detail \in DetailReplies : CryptoReply(chart, detail)
  \/ \E reply \in StockReplies, quote \in QuoteReplies : StockReply(reply, quote)
  \/ DataTick

SpecLoad == InitLoad /\ [][NextLoad]_vars

-----------------------------------------------------------------------------
(* Properties *)

Last(q) == q[Len(q)]

\* a failure is retryable: status 429, status >= 500, or no response received
Retryable(e) == "status" \notin DOMAIN e \/ e.status = 429 \/ e.status >= 500

\* C1: fetchAllAssets returns one record per input ticker, in input order:
\* at every moment the records collected so far are those of the first
\* tickers (the k-th has the k-th ticker's symbol, duplicates included), and
\* when the cycle is over their number is the number of tickers.
C1_OneRecordPerTickerInOrder ==
  \A p \in Procs :
    /\ Len(procs[p].results) <= Len(tickers)
    /\ \A k \in 1..Len(procs[p].results) : procs[p].results[k].symbol = tickers[k]
    /\ procs[p].pc = "done" => Len(procs[p].results) = Len(tickers)

\* a finished cycle over a list with a repeated ticker whose every request
\* failed: two placeholders
C1_Witness ==
  \E p \in Procs :
    /\ procs[p].pc = "done"
    /\ Len(tickers) = 2 /\ tickers[1] = tickers[2]
    /\ \A k \in 1..2 : procs[p].results[k].error /\ procs[p].results[k].history = ZeroSeries

\* C2: at most one fetch cycle (fetchData invocation) is in progress.
C2_NoTwoCyclesInProgress == Cardinality({p \in Procs : Active(p)}) <= 1

\* C3: two consecutive completions of waitForCoinGecko record times at least
\* 5000 ms apart.
C3_AcquiresSpaced ==
  acquires >= 2 => lastCoinGeckoCall - prevCoinGeckoCall >= 5000

\* C4: no adapter call propagates an exception into fetchAllAssets: no cycle
\* is ever aborted, and every ticker the loop has passed left a record.
C4_AdaptersNeverThrow ==
  \A p \in Procs :
    /\ ~procs[p].aborted
    /\ procs[p].pc # "idle" => Len(procs[p].results) = procs[p].i - 1

\* the first ticker failed (placeholder or stale record) and the second was
\* then fetched from the provider
C4_Witness ==
  \E p \in Procs :
    /\ Len(procs[p].results) = 2
    /\ procs[p].results[1].error
    /\ ~procs[p].results[2].error
    /\ "fromCache" \notin DOMAIN procs[p].results[2]

\* the step in which p's chart request ends in failure: an error that is not
\* retried, or a response that cannot be read
ChartFailedStep(p) ==
  /\ procs[p].pc = "request"
  /\ procs[p].phase \in {"chart", "schart"}
  /\ event'.p = p
  /\ event'.resp.kind \in {"error", "malformed"}
  /\ procs'[p].pc # "backoff"

\* C5: when the chart fetch fails the adapter returns, if the cache holds an
\* entry under the call's own key, that entry flagged error and fromCache,
\* and otherwise a zero-valued placeholder for the requested symbol flagged
\* error; the record is of the requested symbol and lookback.
C5_FallbackOnChartFailure ==
  [][\A p \in Procs :
       ChartFailedStep(p) =>
         LET pr == procs[p]
             ticker == tickers[pr.i]
             key == KeyOf(ticker, pr.days)
             rs == procs'[p].results
         IN /\ Len(rs) = Len(pr.results) + 1
            /\ Last(rs).symbol = ticker
            /\ Last(rs).error
            /\ IF key \in DOMAIN cache
               THEN /\ Last(rs) = Spread(cache[key], [error |-> TRUE, fromCache |-> TRUE])
                    /\ Last(rs).history = Series(ticker, pr.days)
               ELSE /\ Last(rs).history = ZeroSeries
                    /\ ~Last(rs).secondary
                    /\ "timestamp" \notin DOMAIN Last(rs)]_vars

\* a stale record was returned: the entry of the key, flagged
C5_Witness ==
  \E p \in Procs : \E k \in 1..Len(procs[p].results) :
    LET rec == procs[p].results[k]
        key == KeyOf(tickers[k], procs[p].days)
    IN /\ rec.error
       /\ "fromCache" \in DOMAIN rec
       /\ key \in DOMAIN cache
       /\ rec = Spread(cache[key], [error |-> TRUE, fromCache |-> TRUE])

\* an entry is valid for the short TTL: present, stored less than 60 s ago
ChartEntryValid(key) ==
  /\ key \in DOMAIN cache
  /\ "timestamp" \in DOMAIN cache[key]
  /\ clock - cache[key].timestamp < 60000

\* C6: when fetchAllAssets takes a ticker whose chart entry is valid, the
\* adapter returns that entry flagged fromCache in the same step, with no
\* request and the cache and its file untouched; when the entry is absent or
\* expired nothing is returned before a chart request was issued.
C6_RequestIffNoValidEntry ==
  [][\A p \in Procs :
       LET pr == procs[p]
           nw == procs'[p]
       IN /\ (pr.pc = "dispatch" /\ pr.i <= Len(tickers) /\ nw # pr) =>
               LET key == KeyOf(tickers[pr.i], pr.days)
               IN IF ChartEntryValid(key)
                  THEN /\ nw.results = Append(pr.results,
                                              Spread(cache[key], [fromCache |-> TRUE]))
                       /\ nw.pc = "dispatch"
                       /\ nw.chartReqs = 0
                       /\ cache' = cache
                       /\ file' = file
                  ELSE /\ nw.results = pr.results
                       /\ nw.pc \in {"limiterWait", "request"}
                       /\ nw.pc = "request" => nw.chartReqs = 1
          /\ (pr.pc # "dispatch" /\ Len(nw.results) > Len(pr.results)) =>
               pr.chartReqs >= 1]_vars

\* a chart request is in flight for a key whose entry was stored 60 s ago or
\* more (the expired entry)
C6_Witness ==
  \E p \in Procs :
    /\ procs[p].pc = "request"
    /\ procs[p].phase \in {"chart", "schart"}
    /\ LET key == KeyOf(tickers[procs[p].i], procs[p].days)
       IN key \in DOMAIN cache /\ clock - cache[key].timestamp >= 60000

\* C7: one axiosGetWithRetry call sends at most retries + 1 = 4 requests, and
\* when it ends by throwing a retryable failure it has sent exactly 4, all
\* failed, and throws the failure of the last one.
C7_AtMostRetriesPlusOne ==
  /\ \A p \in Procs : procs[p].sent <= Retries + 1
  /\ event.sent <= 4
  /\ (event.ended = "threw" /\ Retryable(event.thrown)) =>
       /\ event.sent = Retries + 1
       /\ event.nfail = Retries + 1
       /\ event.thrown = event.resp.err

C7_Witness ==
  /\ event.ended = "threw"
  /\ Retryable(event.thrown)
  /\ event.sent = 4

\* C8: a failed attempt is followed by the backoff wait exactly when attempts
\* remain and the failure is retryable; otherwise the call throws that
\* failure in the same step, with no wait and no further request.
C8_RetryIffRetryableAndAttemptsRemain ==
  [][\A p \in Procs :
       (/\ procs[p].pc = "request"
        /\ procs[p].phase \in {"chart", "detail"}
        /\ event'.p = p
        /\ event'.resp.kind = "error") =>
         IF procs[p].attempt < Retries /\ Retryable(event'.resp.err)
         THEN /\ procs'[p].pc = "backoff"
              /\ event'.ended = "no"
         ELSE /\ procs'[p].pc \notin {"backoff", "request"} \/ procs'[p].phase # procs[p].phase
              /\ event'.ended = "threw"
              /\ event'.thrown = event'.resp.err
              /\ event'.sent = procs[p].sent]_vars

\* a 404 on the first attempt ended the call
C8_Witness ==
  /\ event.ended = "threw"
  /\ event.thrown = [status |-> 404]
  /\ event.sent = 1

\* C9: a call that returns a response after k failed attempts has sent
\* exactly k + 1 requests, k <= retries; a retryable failure with attempts
\* remaining never ends the call; the response returned is the last one.
C9_FailuresThenSuccess ==
  /\ event.ended = "returned" =>
       /\ event.sent = event.nfail + 1
       /\ event.nfail <= Retries
       /\ event.resp.kind \in {"ok", "malformed"}
  /\ (event.ended = "threw" /\ Retryable(event.thrown)) => event.nfail > Retries
  /\ (event.ended = "returned" /\ event.resp.kind = "ok"
        /\ procs[event.p].pc \in {"dispatch", "done"}) =>
       ~Last(procs[event.p].results).error

\* one 429, then a response: one retry
C9_Witness ==
  /\ event.ended = "returned"
  /\ event.resp.kind = "ok"
  /\ event.nfail = 1
  /\ event.sent = 2
  /\ event.lastErr = [status |-> 429]

\* what the probed cache holds under the probed key
ProbeAbsent == ProbeKey \notin DOMAIN cache
ProbeNoTimestamp == ~ProbeAbsent /\ "timestamp" \notin DOMAIN cache[ProbeKey]
ProbeAnswered == probe.fn = "isCacheValid" /\ probe.result # "pending"

\* C10 as stated: false for an absent key and for an entry without a
\* timestamp; for an entry with a timestamp, true exactly when
\* now - storedAt < ttl, whatever now, storedAt and ttl are.
C10_ValidIffWithinTtl ==
  ProbeAnswered =>
    probe.result = IF ProbeAbsent \/ ProbeNoTimestamp THEN "false"
                   ELSE IF clock - cache[ProbeKey].timestamp < probe.ttl THEN "true"
                   ELSE "false"

\* C10, what isCacheValid computes instead: a stored timestamp of 0 counts
\* as no timestamp (false); for an entry with a non-zero timestamp, true
\* exactly when now - storedAt < ttl.
C10_ValidIffWithinTtlNonZero ==
  ProbeAnswered =>
    probe.result = IF ProbeAbsent \/ ProbeNoTimestamp THEN "false"
                   ELSE IF cache[ProbeKey].timestamp = 0 THEN "false"
                   ELSE IF clock - cache[ProbeKey].timestamp < probe.ttl THEN "true"
                   ELSE "false"

\* answered true for an entry one tick younger than the ttl
C10_Witness ==
  /\ ProbeAnswered
  /\ ~ProbeAbsent /\ ~ProbeNoTimestamp
  /\ cache[ProbeKey].timestamp > 0
  /\ clock - cache[ProbeKey].timestamp = probe.ttl - 1
  /\ probe.result = "true"

-----------------------------------------------------------------------------
(* Properties of the records the adapters return *)

HasRec == probe.fn = "adapter" /\ probe.rec # <<>>
Rec == probe.rec[1]
Fresh == HasRec /\ probe.path = "fresh"
\* the samples of the series the last chart response carried
ReplySamples ==
  IF IsCrypto(probe.symbol)
  THEN [k \in 1..Len(probe.reply[1].prices) |-> probe.reply[1].prices[k].val]
  ELSE probe.reply[1].result.close
NoValidSample == \A k \in 1..Len(ReplySamples) : ReplySamples[k] = <<>>

\* C11: every record an adapter returns (fresh, served from the cache, stale
\* fallback or placeholder) has a history of at least one sample, and a
\* series with no valid sample gives the history [0].
C11_HistoryNonEmpty ==
  HasRec =>
    /\ Len(Rec.history) >= 1
    /\ (Fresh /\ NoValidSample) => Rec.history = <<0>>

\* a fresh record from a series of two invalid samples
C11_Witness ==
  /\ Fresh
  /\ Len(ReplySamples) = 2 /\ NoValidSample
  /\ Rec.history = <<0>> /\ ~Rec.error

\* C12: when a returned record's timestamps are not empty there are as many
\* as history has samples.
C12_TimestampsAligned ==
  (HasRec /\ "timestamps" \in DOMAIN Rec /\ Len(Rec.timestamps) > 0) =>
    Len(Rec.timestamps) = Len(Rec.history)

\* an equity series of two valid closes with one timestamp, and a crypto
\* series that lost an invalid sample and has a pair without timestamp
C12_Witness ==
  /\ Fresh
  /\ IF IsCrypto(probe.symbol)
     THEN /\ Len(ReplySamples) = 2 /\ ReplySamples[1] = <<>>
          /\ probe.reply[1].prices[2].ts = <<>>
          /\ Len(Rec.timestamps) = 1 /\ Len(Rec.history) = 1
     ELSE /\ Len(ReplySamples) = 2 /\ Len(probe.reply[1].result.timestamp) = 1
          /\ Len(Rec.timestamps) = 2 /\ Len(Rec.history) = 2

\* the denominator of a record's percentage: the first sample for crypto, the
\* previous close for an equity
Denominator == IF IsCrypto(probe.symbol) THEN Rec.history[1] ELSE Rec.previousClose

\* C13: change is 0 when the denominator is <= 0 and otherwise
\* (price - denominator) / denominator x 100; the division is never by a
\* non-positive value.
C13_ChangeGuarded ==
  HasRec =>
    /\ Rec.change.den > 0
    /\ Denominator <= 0 => Rec.change.num = 0
    /\ Denominator > 0 =>
         Rec.change.num * Denominator = (Rec.price - Denominator) * 100 * Rec.change.den

\* a fresh record whose denominator is negative and whose price is positive
C13_Witness ==
  /\ Fresh
  /\ Denominator < 0 /\ Rec.price > 0
  /\ Rec.change = Num(0)

\* C14: every record an adapter returns has price >= 0.
C14_PriceNonNegative == HasRec => Rec.price >= 0

\* C15: an equity fetch that fails with no entry under its key returns
\* price 0, error true and a fromCache field that is false.
C15_EquityPlaceholderFlags ==
  (HasRec /\ ~IsCrypto(probe.symbol) /\ probe.path = "zero") =>
    /\ Rec.price = 0
    /\ Rec.error
    /\ "fromCache" \in DOMAIN Rec /\ Rec.fromCache = FALSE

\* a crypto record computed from a chart response with no detail data: no
\* valid detail entry and the detail request failed
ChartOnly == Fresh /\ IsCrypto(probe.symbol) /\ probe.detail = "none"

\* the quotient (price - first) / first x 100, not a number when first = 0
Quotient(price, first) == [num |-> (price - first) * 100, den |-> first]
SameNumber(x, y) == x.den # 0 /\ y.den # 0 /\ x.num * y.den = y.num * x.den

\* C16 as stated: with no detail data the record has error = false, price =
\* the last sample of history and change = (price - first) / first x 100.
C16_ChartOnlyPriceAndChange ==
  ChartOnly =>
    /\ ~Rec.error
    /\ Rec.price = Last(Rec.history)
    /\ SameNumber(Rec.change, Quotient(Rec.price, Rec.history[1]))

\* C16 amended: with no detail data the record has error = false, price =
\* the last sample of history, and change = (price - first) / first x 100
\* when the first sample is > 0 and 0 otherwise.
C16_ChartOnlyPriceAndGuardedChange ==
  ChartOnly =>
    /\ ~Rec.error
    /\ Rec.price = Last(Rec.history)
    /\ SameNumber(Rec.change, IF Rec.history[1] > 0
                              THEN Quotient(Rec.price, Rec.history[1]) ELSE Num(0))

\* prices [100, 105, 110]: price 110, change +10
C16_Witness ==
  /\ ChartOnly
  /\ Rec.history = <<100, 105, 110>>
  /\ Rec.price = 110
  /\ SameNumber(Rec.change, Num(10))

\* the (range, interval) of the fixed policy
PolicyRange(days) ==
  CASE days <= 1 -> [range |-> "1d", interval |-> "1h"]
    [] 1 < days /\ days <= 7 -> [range |-> "7d", interval |-> "1d"]
    [] 7 < days /\ days <= 30 -> [range |-> "1mo", interval |-> "1d"]
    [] days > 30 -> [range |-> "3mo", interval |-> "1d"]

\* C17: the equity chart request carries the policy's range and interval for
\* its lookback.
C17_RangePolicy ==
  (probe.fn = "adapter" /\ probe.pc = "chart" /\ ~IsCrypto(probe.symbol)) =>
    probe.request = <<PolicyRange(probe.days)>>

\* the request for a lookback of 30 days: range 1mo, interval 1d
C17_Witness ==
  /\ probe.fn = "adapter" /\ probe.pc = "chart" /\ probe.symbol = "AAPL"
  /\ probe.days = 30
  /\ probe.request = <<[range |-> "1mo", interval |-> "1d"]>>

C20_BackoffWindow ==
  [][\A p \in Procs :
       (procs[p].pc = "request" /\ procs'[p].pc = "backoff") =>
         LET wait == procs'[p].wake - clock
             floor == BaseDelay * Pow2(procs[p].attempt)
         IN /\ Retryable(event'.resp.err) /\ procs[p].attempt < Retries
            /\ floor <= wait /\ wait < floor + 300]_vars

\* the third wait of a call with the largest jitter: 4299 ms
C20_Witness ==
  \E p \in Procs :
    /\ procs[p].pc = "backoff" /\ procs[p].attempt = 2
    /\ event.p = p /\ event.resp.kind = "error"
    /\ procs[p].wake - clock = 4299

\* C18: a fetch cycle that has started eventually returns.
C18_CycleReturns ==
  \A p \in Procs : (procs[p].pc = "dispatch") ~> (procs[p].pc = "done")

\* a cycle over two tickers that returned after the horizon, its first
\* ticker's chart call having failed four times
C18_Witness ==
  \E p \in Procs :
    /\ procs[p].pc = "done" /\ Len(procs[p].results) = 2
    /\ procs[p].results[1].error
    /\ clock > MaxClock

\* the step sends a request of p to the crypto provider (chart or detail
\* endpoint, first attempt or retry)
CryptoRequestSent(p) ==
  /\ procs'[p].pc = "request"
  /\ procs'[p].phase \in {"chart", "detail"}
  /\ procs[p].pc # "request" \/ procs[p].phase # procs'[p].phase

\* C21: every request to the crypto provider is sent in the step in which
\* its own waitForCoinGecko call completes on the one lastCoinGeckoCall: a
\* step sends at most one crypto request; it sends one exactly when the count
\* of completed acquires goes up, by one, and the limiter records the present
\* time; no other step touches the limiter.
C21_AcquireBeforeEveryRequest ==
  [][/\ Cardinality({p \in Procs : CryptoRequestSent(p)}) <= 1
     /\ IF \E p \in Procs : CryptoRequestSent(p)
        THEN /\ acquires' = acquires + 1
             /\ lastCoinGeckoCall' = clock
             /\ prevCoinGeckoCall' = lastCoinGeckoCall
        ELSE UNCHANGED <<acquires, lastCoinGeckoCall, prevCoinGeckoCall>>
     /\ \A p \in Procs :
          CryptoRequestSent(p) => procs'[p].sent = (IF procs[p].pc = "request" THEN 0 ELSE procs[p].sent) + 1]_vars

\* two cycles in progress, a retry of the detail request in flight: the
\* third acquire or a later one
C21_Witness ==
  \E p, q \in Procs :
    /\ p # q /\ Active(q)
    /\ procs[p].pc = "request" /\ procs[p].phase = "detail" /\ procs[p].attempt >= 1
    /\ acquires >= 3

\* C22: every provider request goes through axiosGetWithRetry; in particular
\* the equity adapter does not fall back to a stale or placeholder record on a
\* retryable failure of its chart request while fewer than retries + 1 chart
\* requests were sent for the call.
C22_EquityChartRetried ==
  [][\A p \in Procs :
       (/\ procs[p].pc = "request"
        /\ procs[p].phase = "schart"
        /\ event'.p = p
        /\ event'.resp.kind = "error"
        /\ Retryable(event'.resp.err)
        /\ procs[p].chartReqs < Retries + 1) =>
         /\ procs'[p].results = procs[p].results
         /\ procs'[p].pc \in {"backoff", "limiterWait", "request"}]_vars

\* no fetchData invocation is in progress and one has stored its result
NoFetchInProgress == started /\ \A p \in Procs : ~Active(p)

\* C23: whenever no fetch is in progress, assetsData was fetched with the
\* lookback of the period now selected.
C23_DisplayedPeriodIsSelected ==
  (NoFetchInProgress /\ assetsDays # 0) => assetsDays = PeriodDays[currentPeriodIndex]

\* the step in which p's adapter call returns a record
Returns(p) == Len(procs'[p].results) = Len(procs[p].results) + 1
ReturnedRec(p) == Last(procs'[p].results)
\* a stored chart entry carries no flag of a fallback or of a cache hit
Unflagged(c) ==
  \A key \in DOMAIN c :
    key[1] \in {"crypto", "stock"} => ~c[key].error /\ "fromCache" \notin DOMAIN c[key]

\* C24: a step in which an adapter call returns a record with error = true
\* leaves the cache map and cache.json as they are; the map or the file
\* changes only in a step in which a call returns a fresh record (error =
\* false, not fromCache), and then the map gets that record under the call's
\* own chart key, at most the detail entry of the call's coin besides, and
\* keeps every other entry; no chart entry of the map or of the file is ever
\* flagged error or fromCache.
C24_StoreOnlyOnSuccess ==
  [][/\ \A p \in Procs : (Returns(p) /\ ReturnedRec(p).error) => UNCHANGED <<cache, file>>
     /\ (cache' # cache \/ file' # file) =>
          \E p \in Procs :
            LET ticker == tickers[procs[p].i]
                key == KeyOf(ticker, procs[p].days)
                own == {key} \cup (IF IsCrypto(ticker) THEN {DetailKey(cryptoIds[ticker])} ELSE {})
            IN /\ Returns(p)
               /\ ~ReturnedRec(p).error /\ "fromCache" \notin DOMAIN ReturnedRec(p)
               /\ key \in DOMAIN cache' /\ cache'[key] = ReturnedRec(p)
               /\ DOMAIN cache' = DOMAIN cache \cup (own \cap DOMAIN cache')
               /\ \A k \in DOMAIN cache \ own : cache'[k] = cache[k]
     /\ Unflagged(cache) /\ Unflagged(cache')
     /\ Unflagged(loadFileCache(file)) /\ Unflagged(loadFileCache(file'))]_vars

\* a call returned the stale entry flagged error and fromCache; the entry in
\* the map and in cache.json is the one the previous run stored
C24_Witness ==
  \E p \in Procs :
    /\ Len(procs[p].results) >= 1
    /\ procs[p].results[1].error /\ "fromCache" \in DOMAIN procs[p].results[1]
    /\ LET key == KeyOf(tickers[1], procs[p].days)
       IN /\ key \in DOMAIN cache /\ ~cache[key].error
          /\ cache[key].timestamp = T0 - StaleAge
          /\ file.state = "ok" /\ file.data[key] = cache[key]

\* the step in which p's secondary request (crypto detail, equity quote)
\* ends in failure: an error that is not retried, or a response that cannot
\* be read
SecondaryFailedStep(p) ==
  /\ procs[p].pc = "request"
  /\ procs[p].phase \in {"detail", "quote"}
  /\ event'.p = p
  /\ event'.resp.kind \in {"error", "malformed"}
  /\ procs'[p].pc # "backoff"

\* C25: when the detail request (after its retries) or the quote request
\* fails, the call returns in the same step a record of the requested symbol
\* with error = false, not flagged fromCache and without secondary data, and
\* that record is the map's entry under the call's chart key; the detail
\* entry of the map is left as it was.
C25_SecondaryFailureIsSilent ==
  [][\A p \in Procs :
       SecondaryFailedStep(p) =>
         LET ticker == tickers[procs[p].i]
             key == KeyOf(ticker, procs[p].days)
             details == {k \in DOMAIN cache : k[1] = "detail"}
         IN /\ Returns(p)
            /\ ReturnedRec(p).symbol = ticker
            /\ ~ReturnedRec(p).error
            /\ "fromCache" \notin DOMAIN ReturnedRec(p)
            /\ ~ReturnedRec(p).secondary
            /\ ReturnedRec(p).history = Series(ticker, procs[p].days)
            /\ key \in DOMAIN cache' /\ cache'[key] = ReturnedRec(p)
            /\ {k \in DOMAIN cache' : k[1] = "detail"} = details
            /\ \A k \in details : cache'[k] = cache[k]]_vars

\* the detail call threw after four failed requests; the record returned is
\* the fresh chart record, stored
C25_Witness ==
  /\ event.ended = "threw" /\ Retryable(event.thrown) /\ event.sent = 4
  /\ event.p \in Procs
  /\ LET pr == procs[event.p]
     IN /\ Len(pr.results) >= 1
        /\ ~Last(pr.results).error /\ ~Last(pr.results).secondary
        /\ cache[KeyOf(Last(pr.results).symbol, pr.days)] = Last(pr.results)

\* the step in which p's adapter call returns a record it fetched
ReturnsFresh(p) ==
  Returns(p) /\ ~ReturnedRec(p).error /\ "fromCache" \notin DOMAIN ReturnedRec(p)
\* cache.json holding exactly the map c: every key, each with its payload
WholeMap(c) == [state |-> "ok", data |-> c]

\* C26: a step in which a call stores what it fetched leaves the new record
\* in the map under the call's chart key and returns it with error = false,
\* whatever becomes of the file writes; cache.json is afterwards either as it
\* was (every write of the step failed) or exactly the whole map as it was
\* at a write of the step: the map after the step, or, when the write that
\* followed the chart entry failed, the map with the new detail entry and
\* without the new chart entry.  cache.json changes in no other step.
C26_SnapshotIsWholeMap ==
  [][/\ \A p \in Procs :
          ReturnsFresh(p) =>
            LET ticker == tickers[procs[p].i]
                key == KeyOf(ticker, procs[p].days)
                afterDetail ==
                  [k \in (DOMAIN cache') \ ({key} \ DOMAIN cache) |->
                     IF k = key THEN cache[k] ELSE cache'[k]]
            IN /\ key \in DOMAIN cache' /\ cache'[key] = ReturnedRec(p)
               /\ \/ file' = file
                  \/ file' = WholeMap(cache')
                  \/ /\ IsCrypto(ticker)
                     /\ afterDetail # cache
                     /\ file' = WholeMap(afterDetail)
     /\ file' # file => \E p \in Procs : ReturnsFresh(p)]_vars

\* two records fetched and stored; cache.json still holds what the previous
\* run left for both keys: every write failed and the map has the new entries
C26_Witness ==
  \E p \in Procs :
    /\ Len(procs[p].results) = 2 /\ tickers[1] # tickers[2]
    /\ file.state = "ok"
    /\ \A k \in 1..2 :
         LET rec == procs[p].results[k]
             key == KeyOf(tickers[k], procs[p].days)
         IN /\ ~rec.error /\ "fromCache" \notin DOMAIN rec
            /\ cache[key] = rec
            /\ key \in DOMAIN file.data /\ file.data[key].timestamp < rec.timestamp

\* the detail data the last crypto call computed its record with
DetailUsed ==
  IF probe.detail = "none" THEN NullDetail ELSE cache[DetailKey(cryptoIds[probe.symbol])]
Omitted(field) == DetailField(DetailUsed, field) = <<>>

\* C27: when the detail data has no 24h high (low), or there is none, the
\* crypto record's high (low) is the maximum (minimum) of its history, zero
\* and negative samples included.
C27_HighLowOfHistory ==
  (Fresh /\ IsCrypto(probe.symbol)) =>
    /\ Omitted("high24h") => Rec.high = MaxOf(Rec.history)
    /\ Omitted("low24h") => Rec.low = MinOf(Rec.history)

\* the constructor found no cache.json it could load
LoadFailed == probe.fn = "adapter" /\ probe.loaded # "ok"

\* C28: after a start on a cache.json that is missing, unreadable or
\* unparsable, the map holds no entry of that file, in whole or in part:
\* every entry it holds was stored by a fetch of this run; and the calls
\* behave as on a first run: a record served from the map (a hit or a stale
\* fallback) is one this run fetched, and a call whose chart request fails
\* before any was fetched returns the placeholder.
C28_LoadFailureIsEmptyCache ==
  LoadFailed =>
    /\ \A key \in DOMAIN cache : cache[key].timestamp >= T0
    /\ (HasRec /\ probe.path \in {"hit", "stale"}) => Rec.timestamp >= T0
    /\ (HasRec /\ probe.path = "zero") => Rec.error /\ Rec.history = <<0>>
    /\ (probe.pc = "idle" /\ probe.path = "none") => cache = <<>>

\* a start on a document that does not parse and whose text holds an entry
\* 30 s old for the key: the first call's chart request failed and the call
\* returned the placeholder
C28_Witness ==
  /\ LoadFailed /\ probe.loaded = "corrupt"
  /\ file.state = "corrupt"
  /\ KeyOf(probe.symbol, probe.days) \in DOMAIN file.data
  /\ clock - file.data[KeyOf(probe.symbol, probe.days)].timestamp = FreshAge
  /\ HasRec /\ probe.path = "zero" /\ Rec.error
  /\ cache = <<>>

====
